---------------------------- MODULE Spec2Model ----------------------------
(***************************************************************************)
(* Model of docs/dummy_data.py: generate_random_data (the row generator)   *)
(* and create_csv_file (the file writer).                                  *)
(*                                                                         *)
(* The vocabularies are the lists of the source, verbatim (the topping     *)
(* "jalapeno poppers" is written in ASCII).  The random source is a tape   *)
(* of raw draws chosen by the environment for each call of                 *)
(* generate_random_data; the iteration order of a Python set is fixed by   *)
(* the hash seed of the interpreter process.  The output file is a         *)
(* sequence of lines shared by the processes that write the same path;     *)
(* every process has its own handle (offset and write buffer).             *)
(***************************************************************************)
EXTENDS Integers, Sequences, FiniteSets, TLC

VARIABLES num_rows, hashSeed, pc, rowsDone, file_open, buf, pos, disk,
          stdout, generated, last, abortStage, lastWriter, openedAfterClose,
          tapes

vars == <<num_rows, hashSeed, pc, rowsDone, file_open, buf, pos, disk,
          stdout, generated, last, abortStage, lastWriter, openedAfterClose,
          tapes>>

(***************************************************************************)
(* Bounds of the model.                                                    *)
(***************************************************************************)
\* tapes of the random source the environment chooses from: 0..MaxSeed
MaxSeed == 3
\* tapes the environment chooses from when two instances share the path
MaxSeedConc == 1
\* hash seeds of an interpreter process: 0..MaxHash
MaxHash == 1
\* largest row count passed to create_csv_file
MaxRows == 2
\* largest row count passed when two instances share the path
MaxRowsConc == 1
\* lines a handle's write buffer holds before it is flushed to the file
BufCap == 2

Procs == 1..2
Seeds == 0..MaxSeed
SeedsConc == 0..MaxSeedConc
HashSeeds == 0..MaxHash
RowCounts == (-1)..MaxRows
RowCountsConc == 0..MaxRowsConc

(***************************************************************************)
(* Vocabularies of generate_random_data.                                   *)
(***************************************************************************)
burger_adjectives ==
  <<
    "Spicy", "Savory", "Smoky", "Sweet", "Classic", "Hearty", "Zesty", "Tangy", "Bold",
    "Crispy", "Juicy", "Sassy", "Fiery", "Cool", "Rich", "Roasted", "Smothered", "Charred"
  >>

burger_nouns ==
  <<
    "Rancher", "Outlaw", "Gourmet", "Titan", "Maverick", "Patriot", "King", "Queen", "Warrior",
    "Legend", "Voyager", "Nomad", "Wrangler", "Hunter", "Trapper"
  >>

toppings ==
  <<
    "jalapeno poppers", "bacon", "cheddar cheese", "smoked brisket", "crispy onion straws",
    "BBQ sauce", "avocado", "sprouts", "vegan aioli", "pepper jack cheese", "sriracha mayo",
    "blue cheese crumbles", "caramelized onions", "bacon jam", "tzatziki sauce", "cucumber",
    "red onion", "feta cheese", "pineapple-glaze", "swiss cheese", "fried egg", "mushrooms",
    "chorizo", "salsa", "guacamole", "pickled red cabbage", "pulled pork", "provolone",
    "arugula", "roasted red peppers", "goat cheese", "pesto"
  >>

buns ==
  <<
    "brioche bun", "pretzel bun", "sesame seed bun", "potato bun", "gluten-free bun",
    "ciabatta roll", "kaiser roll", "rye bun"
  >>

shared_beers ==
  <<
    "Lagunitas IPA", "Sierra Nevada Pale Ale", "New Belgium Fat Tire", "Stone IPA",
    "Bell's Two Hearted Ale", "Modelo Especial", "Corona Extra", "Founders All Day IPA",
    "Heineken", "Pabst Blue Ribbon", "Blue Moon Belgian White", "Coors Light",
    "Michelob Ultra", "Miller Lite", "Bud Light", "Stella Artois", "Yuengling Lager",
    "Shiner Bock", "Heineken 0.0", "Lagunitas Daytime IPA", "Stone Delicious IPA",
    "Sam Adams Boston Lager", "Dogfish Head 60 Minute IPA", "New Belgium Voodoo Ranger IPA",
    "Guinness Draught", "Firestone Walker 805", "Sierra Nevada Hazy Little Thing",
    "Anchor Steam Beer", "Founders Kentucky Breakfast Stout", "Oskar Blues Dale's Pale Ale",
    "Allagash White", "Deschutes Fresh Squeezed IPA", "Troegs Perpetual IPA",
    "Goose Island IPA", "SweetWater 420 Pale Ale", "Narragansett Lager",
    "Victory Golden Monkey", "Cigar City Jai Alai IPA", "Stone Arrogant Bastard Ale",
    "Fat Tire Amber Ale", "Great Lakes Dortmunder Gold", "Left Hand Milk Stout",
    "Dogfish Head 90 Minute IPA", "Oskar Blues Old Chub", "Brooklyn Lager",
    "Bell's Oberon Ale", "Rogue Dead Guy Ale", "Ballast Point Sculpin IPA",
    "21st Amendment Brew Free! or Die IPA", "Surly Furious IPA", "Kona Big Wave Golden Ale"
  >>

tap_only_beers ==
  <<
    "Pliny the Elder", "Russian River Blind Pig IPA", "Hill Farmstead Susan",
    "Tree House Julius", "The Alchemist Heady Topper", "Bell's Expedition Stout",
    "Toppling Goliath King Sue", "3 Floyds Zombie Dust", "Trillium Congress Street IPA",
    "WeldWerks Juicy Bits", "Other Half Double Dry Hopped", "Monkish Foggy Glasses",
    "Prairie Artisan Ales Bomb!", "Avery The Reverend", "Lost Abbey Devotion Ale",
    "Cantillon Gueuze", "Orval Trappist Ale", "Chimay Blue", "Rochefort 10", "Westvleteren 12",
    "Fremont Bourbon Barrel Aged Dark Star", "Founders Breakfast Stout", "Surly Darkness",
    "Dogfish Head Palo Santo Marron", "North Coast Old Rasputin",
    "Great Lakes Edmund Fitzgerald Porter", "Half Acre Daisy Cutter Pale Ale",
    "New Glarus Spotted Cow", "Perennial Artisan Ales Abraxas", "Jester King Le Petit Prince",
    "Deschutes The Abyss", "Troegs Nugget Nectar", "Alesmith Speedway Stout",
    "Modern Times Fortunate Islands", "Firestone Walker Pivo Pils",
    "Green Flash West Coast IPA", "Port Brewing Hop 15", "Pizza Port Chronic Amber Ale",
    "Societe The Pupil IPA", "Alesmith IPA", "Karl Strauss Red Trolley Ale",
    "Stone Ripper Pale Ale", "Sierra Nevada Torpedo Extra IPA", "KBS", "SweetWater IPA",
    "Creature Comforts Tropicalia", "Funky Buddha Last Snow",
    "Goose Island Bourbon County Brand Stout"
  >>

can_only_beers ==
  <<
    "White Claw Hard Seltzer Mango", "Truly Wild Berry Seltzer", "Tecate",
    "Angry Orchard Crisp Apple", "Strongbow Original Dry Cider", "Smirnoff Ice",
    "High Noon Pineapple", "Cutwater Tequila Margarita", "Twisted Tea Original",
    "Mike's Hard Lemonade", "Nutrl Watermelon", "Simply Spiked Lemonade",
    "Hard Seltzer Variety Packs", "Henry's Hard Soda", "Spindrift Spiked",
    "Topo Chico Hard Seltzer", "Press Seltzer", "Flying Embers Hard Kombucha",
    "JuneShine Hard Kombucha", "Dogfish Head SeaQuench Ale", "Two Roads Two Juicy",
    "Jack Daniel's Lynchburg Lemonade", "Old Style", "Coors Banquet", "Busch Light",
    "Keystone Light", "Pabst Blue Ribbon Easy", "Miller High Life", "Natural Light", "Bud Ice",
    "Genesee Cream Ale", "Red Stripe Lager", "Narragansett Fresh Catch",
    "Voodoo Ranger Juice Force IPA", "Odell 90 Shilling Ale",
    "Southern Tier Pumking Imperial Ale", "Dogfish Head Punkin Ale",
    "Wicked Weed Pernicious IPA", "Duvel Belgian Golden Ale", "Delirium Tremens",
    "Corsendonk Dubbel", "Lindemans Framboise Lambic", "Chimay White", "Stella Artois Cidre",
    "Oskar Blues Mama's Little Yella Pils", "21st Amendment El Sully", "Ska Modus Hoperandi",
    "Uinta Cutthroat Pale Ale", "New Glarus Moon Man"
  >>

sticker_types ==
  <<
    ".png", ".jpg", ".svg"
  >>

header ==
  <<"Historical Burger", "Historical Tap Beers", "Historical Can Beers",
    "Historical Facebook Event", "Historical Sticker">>

\* size of the subsample of shared_beers: min(len(shared_beers), 15)
SharedSampleMax == 15
MinToppings == 2
MaxToppings == 4
MinTapBeers == 1
MaxTapBeers == 4
MinCanBeers == 4
MaxCanBeers == 6
EventLo == 1000000
EventHi == 9999999
StickerLo == 100
StickerHi == 999

(***************************************************************************)
(* Helpers on sequences.                                                   *)
(***************************************************************************)
Range(seq) == {seq[k] : k \in 1..Len(seq)}

Distinct(seq) == \A a, b \in 1..Len(seq) : a # b => seq[a] # seq[b]

Min(a, b) == IF a < b THEN a ELSE b

Max(a, b) == IF a > b THEN a ELSE b

(***************************************************************************)
(* The random source.  Tape s yields the raw draw Raw(s, n) for the n-th   *)
(* draw of a call; tape 0 is the constant tape.                            *)
(***************************************************************************)
RawMod == 9973

Raw(s, n) ==
  IF s = 0 THEN 0
  ELSE (s * 7919 + n * 6151 + s * n * 389 + (n * n) * 53 + 17) % RawMod

\* random._randbelow(m): a value of 0..m-1
RandBelow(s, n, m) == (Raw(s, n) * (1 + m \div RawMod)) % m

\* random.randint(a, b)
RandInt(s, n, a, b) == a + RandBelow(s, n, b - a + 1)

\* random.choice(seq)
Choice(s, n, seq) == seq[RandBelow(s, n, Len(seq)) + 1]

\* the selection loop of random.sample: position j of the pool is taken
\* and the last element of the pool moved into its place
RECURSIVE SampleLoop(_, _, _, _)
SampleLoop(pool, k, s, n) ==
  IF k = 0 THEN <<>>
  ELSE LET m == Len(pool)
           j == RandBelow(s, n, m) + 1
           rest == SubSeq([pool EXCEPT ![j] = pool[m]], 1, m - 1)
       IN  <<pool[j]>> \o SampleLoop(rest, k - 1, s, n + 1)

\* a sampling with replacement (random.choices in place of random.sample)
Sample_WithReplacement(population, k, s, n) ==
  IF k < 0 \/ k > Len(population)
  THEN [fault |-> TRUE, result |-> <<>>]
  ELSE [fault |-> FALSE,
        result |-> [t \in 1..k |-> population[RandBelow(s, n + t - 1, Len(population)) + 1]]]

\* random.sample(population, k): ValueError when k exceeds the population
Sample(population, k, s, n) ==
  IF k < 0 \/ k > Len(population)
  THEN [fault |-> TRUE, result |-> <<>>]
  ELSE [fault |-> FALSE, result |-> SampleLoop(population, k, s, n)]

(***************************************************************************)
(* list(set(...)): the elements of the set in the iteration order that the *)
(* hash seed h of the process gives.                                       *)
(***************************************************************************)
AllBeers == shared_beers \o tap_only_beers \o can_only_beers

HashOrder(h) ==
  LET m == Len(AllBeers)
      r == (h * 53) % m
      rot == [k \in 1..m |-> AllBeers[((k - 1 + r) % m) + 1]]
  IN  IF h % 2 = 0 THEN rot ELSE [k \in 1..m |-> rot[m + 1 - k]]

ListOfSet(S, h) == SelectSeq(HashOrder(h), LAMBDA x : x \in S)

\* a can pool built on the whole shared list instead of the subsample
real_can_beers_WholeShared(sample, h) ==
  ListOfSet(Range(can_only_beers \o shared_beers), h)

\* a can pool built on the tap-only list
real_can_beers_TapList(sample, h) == ListOfSet(Range(tap_only_beers \o sample), h)

\* a can pool that keeps only the beers of both lists
real_can_beers_Intersect(sample, h) ==
  ListOfSet(Range(can_only_beers) \cap Range(sample), h)

\* real_tap_beers / real_can_beers: list(set(only + sample))
real_tap_beers(sample, h) == ListOfSet(Range(tap_only_beers \o sample), h)

real_can_beers(sample, h) == ListOfSet(Range(can_only_beers \o sample), h)

(***************************************************************************)
(* String formatting.                                                      *)
(***************************************************************************)
RECURSIVE Join(_, _)
Join(sep, seq) ==
  IF seq = <<>> THEN ""
  ELSE IF Len(seq) = 1 THEN seq[1]
  ELSE seq[1] \o sep \o Join(sep, Tail(seq))

burger_name(adjective, noun) == "The " \o adjective \o " " \o noun

burger_description(adjective, noun, tops, bun) ==
  burger_name(adjective, noun) \o " - " \o Join(", ", tops) \o " on a " \o bun

facebook_event(id) ==
  "https://www.google.com/search?q=https://facebook.com/events/" \o ToString(id)

sticker_name(id, ext) == "sticker" \o ToString(id) \o ext

(***************************************************************************)
(* generate_random_data, on tape s in a process of hash seed h.  The       *)
(* result records the locals of the call and the returned row.             *)
(***************************************************************************)
NoCall ==
  [called |-> FALSE, tape |-> 0, fault |-> FALSE,
   tap_sample |-> <<>>, can_sample |-> <<>>,
   tap_pool |-> <<>>, can_pool |-> <<>>,
   adjective |-> "", noun |-> "", selected_toppings |-> <<>>, bun |-> "",
   num_tap_beers |-> 0, selected_tap_beers |-> <<>>,
   num_can_beers |-> 0, selected_can_beers |-> <<>>,
   row |-> <<>>]

generate_random_data(s, h) ==
  LET k15 == Min(Len(shared_beers), SharedSampleMax)
      s1 == Sample(shared_beers, k15, s, 0)
      n1 == k15
      s2 == Sample(shared_beers, k15, s, n1)
      n2 == n1 + k15
      tapPool == real_tap_beers(s1.result, h)
      canPool == real_can_beers(s2.result, h)
      adjective == Choice(s, n2, burger_adjectives)
      noun == Choice(s, n2 + 1, burger_nouns)
      num_toppings == RandInt(s, n2 + 2, MinToppings, MaxToppings)
      tops == Sample(toppings, num_toppings, s, n2 + 3)
      n3 == n2 + 3 + num_toppings
      bun == Choice(s, n3, buns)
      num_tap == RandInt(s, n3 + 1, MinTapBeers, MaxTapBeers)
      taps == Sample(tapPool, num_tap, s, n3 + 2)
      n4 == n3 + 2 + num_tap
      num_can == RandInt(s, n4, MinCanBeers, MaxCanBeers)
      cans == Sample(canPool, num_can, s, n4 + 1)
      n5 == n4 + 1 + num_can
      event == RandInt(s, n5, EventLo, EventHi)
      sticker == RandInt(s, n5 + 1, StickerLo, StickerHi)
      ext == Choice(s, n5 + 2, sticker_types)
      fault == tops.fault \/ taps.fault \/ cans.fault
  IN  [called |-> TRUE, tape |-> s, fault |-> fault,
       tap_sample |-> s1.result, can_sample |-> s2.result,
       tap_pool |-> tapPool, can_pool |-> canPool,
       adjective |-> adjective, noun |-> noun,
       selected_toppings |-> tops.result, bun |-> bun,
       num_tap_beers |-> num_tap, selected_tap_beers |-> taps.result,
       num_can_beers |-> num_can, selected_can_beers |-> cans.result,
       row |-> IF fault THEN <<>>
               ELSE <<burger_description(adjective, noun, tops.result, bun),
                      Join(", ", taps.result),
                      Join(", ", cans.result),
                      facebook_event(event),
                      sticker_name(sticker, ext)>>]

\* the calls of generate_random_data the model draws from, one for every
\* tape of the random source and hash seed
Calls == [s \in Seeds \cup SeedsConc, h \in HashSeeds |-> generate_random_data(s, h)]

(***************************************************************************)
(* The output file and a handle on it.  A line of the file is the sequence *)
(* of its quoted fields; Hole is a line of a gap left by a write past the  *)
(* end of the file.                                                        *)
(***************************************************************************)
Hole == <<>>

\* csv.writer(delimiter=';', quoting=csv.QUOTE_ALL).writerow: every field is
\* wrapped in quotes (no field of the vocabularies holds a quote)
CsvLine(row) == [k \in 1..Len(row) |-> "\"" \o row[k] \o "\""]

\* a flush that ignores the offset of the handle
FlushTo_AtStart(d, at, data) ==
  IF data = <<>> THEN d
  ELSE [k \in 1..Max(Len(d), Len(data)) |->
          IF k <= Len(data) THEN data[k] ELSE d[k]]

\* the file after the lines of data are written at offset at
FlushTo(d, at, data) ==
  IF data = <<>> THEN d
  ELSE [k \in 1..Max(Len(d), at + Len(data)) |->
          IF k > at /\ k <= at + Len(data) THEN data[k - at]
          ELSE IF k <= Len(d) THEN d[k]
          ELSE Hole]

\* file.write through the buffer of the handle: the buffer is flushed to
\* the file once it holds BufCap lines
FileWrite(b, at, d, line) ==
  LET b2 == Append(b, line)
  IN  IF Len(b2) >= BufCap
      THEN [buf |-> <<>>, pos |-> at + Len(b2), disk |-> FlushTo(d, at, b2),
            flushed |-> TRUE]
      ELSE [buf |-> b2, pos |-> at, disk |-> d, flushed |-> FALSE]

\* a handle dropped without the flush of its buffer
FileClose_NoFlush(b, at, d) ==
  [buf |-> <<>>, pos |-> at, disk |-> d, flushed |-> FALSE]

\* leaving the with block: the buffer is flushed and the handle released
FileClose(b, at, d) ==
  [buf |-> <<>>, pos |-> at + Len(b), disk |-> FlushTo(d, at, b),
   flushed |-> b # <<>>]

\* an open that keeps the content of the file
OpenTruncate_Keep(d) == d

\* open(path, 'w'): the file is truncated
OpenTruncate(d) == <<>>

success_message(n) ==
  "Successfully generated " \o ToString(n)
    \o " rows of data in 'dummy_historical_data.csv'"

Finished == {"closed", "done", "aborted"}

(***************************************************************************)
(* Initial states: one instance of create_csv_file, or two instances on    *)
(* the same path.                                                          *)
(***************************************************************************)
InitCommon ==
  /\ rowsDone = [p \in Procs |-> 0]
  /\ file_open = [p \in Procs |-> FALSE]
  /\ buf = [p \in Procs |-> <<>>]
  /\ pos = [p \in Procs |-> 0]
  /\ stdout = [p \in Procs |-> <<>>]
  /\ generated = [p \in Procs |-> <<>>]
  /\ last = [p \in Procs |-> NoCall]
  /\ abortStage = [p \in Procs |-> "none"]
  /\ lastWriter = 0
  /\ openedAfterClose = [p \in Procs |-> FALSE]

Init ==
  /\ InitCommon
  /\ pc = [p \in Procs |-> IF p = 1 THEN "start" ELSE "off"]
  /\ \E n \in RowCounts : num_rows = [p \in Procs |-> IF p = 1 THEN n ELSE 0]
  /\ \E h \in HashSeeds : hashSeed = [p \in Procs |-> IF p = 1 THEN h ELSE 0]
  /\ disk \in {<<>>, <<CsvLine(header), CsvLine(header)>>}
  /\ tapes = Seeds

InitConc ==
  /\ InitCommon
  /\ pc = [p \in Procs |-> "start"]
  /\ num_rows \in [Procs -> RowCountsConc]
  /\ hashSeed \in [Procs -> HashSeeds]
  /\ disk = <<>>
  /\ tapes = SeedsConc

(***************************************************************************)
(* create_csv_file, one action per step of instance p.                     *)
(***************************************************************************)
\* with open('dummy_historical_data.csv', 'w', ...) as file
Open(p) ==
  /\ pc[p] = "start"
  /\ pc' = [pc EXCEPT ![p] = "header"]
  /\ file_open' = [file_open EXCEPT ![p] = TRUE]
  /\ buf' = [buf EXCEPT ![p] = <<>>]
  /\ pos' = [pos EXCEPT ![p] = 0]
  /\ disk' = OpenTruncate(disk)
  /\ openedAfterClose' =
       [openedAfterClose EXCEPT ![p] = \A q \in Procs \ {p} : pc[q] \in Finished]
  /\ UNCHANGED <<tapes, num_rows, hashSeed, rowsDone, stdout, generated, last,
                 abortStage, lastWriter>>

\* writer.writerow(header)
WriteHeader(p) ==
  /\ pc[p] = "header"
  /\ LET w == FileWrite(buf[p], pos[p], disk, CsvLine(header))
     IN  /\ buf' = [buf EXCEPT ![p] = w.buf]
         /\ pos' = [pos EXCEPT ![p] = w.pos]
         /\ disk' = w.disk
         /\ lastWriter' = IF w.flushed THEN p ELSE lastWriter
  /\ pc' = [pc EXCEPT ![p] = "loop"]
  /\ UNCHANGED <<tapes, num_rows, hashSeed, rowsDone, file_open, stdout, generated,
                 last, abortStage, openedAfterClose>>

\* one iteration of the loop: row = generate_random_data(); writer.writerow(row)
WriteRow(p) ==
  /\ pc[p] = "loop"
  /\ rowsDone[p] < num_rows[p]
  /\ \E s \in tapes :
       LET g == Calls[s, hashSeed[p]]
           w == FileWrite(buf[p], pos[p], disk, CsvLine(g.row))
       IN  /\ ~g.fault
           /\ last' = [last EXCEPT ![p] = g]
           /\ generated' = [generated EXCEPT ![p] = Append(@, g)]
           /\ buf' = [buf EXCEPT ![p] = w.buf]
           /\ pos' = [pos EXCEPT ![p] = w.pos]
           /\ disk' = w.disk
           /\ lastWriter' = IF w.flushed THEN p ELSE lastWriter
  /\ rowsDone' = [rowsDone EXCEPT ![p] = @ + 1]
  /\ UNCHANGED <<tapes, num_rows, hashSeed, pc, file_open, stdout, abortStage,
                 openedAfterClose>>

\* an exception leaves generate_random_data (the ValueError of random.sample,
\* or a fault of the environment while the row is built): the with block
\* closes the file and the exception ends the run
GenerateFault(p) ==
  /\ pc[p] = "loop"
  /\ rowsDone[p] < num_rows[p]
  /\ \E s \in tapes, envFault \in BOOLEAN :
       LET g == Calls[s, hashSeed[p]]
       IN  /\ g.fault \/ envFault
           /\ last' = [last EXCEPT ![p] = g]
  /\ LET c == FileClose(buf[p], pos[p], disk)
     IN  /\ buf' = [buf EXCEPT ![p] = c.buf]
         /\ pos' = [pos EXCEPT ![p] = c.pos]
         /\ disk' = c.disk
         /\ lastWriter' = IF c.flushed THEN p ELSE lastWriter
  /\ file_open' = [file_open EXCEPT ![p] = FALSE]
  /\ pc' = [pc EXCEPT ![p] = "aborted"]
  /\ abortStage' = [abortStage EXCEPT ![p] = "generate"]
  /\ UNCHANGED <<tapes, num_rows, hashSeed, rowsDone, stdout, generated,
                 openedAfterClose>>

\* writer.writerow(row) raises: the flush of the full buffer to the file
\* fails, m lines of the buffer have reached the file (at the failed flush
\* or at the flush of the closing handle), the rest is lost
WriteFault(p) ==
  /\ pc[p] = "loop"
  /\ rowsDone[p] < num_rows[p]
  /\ \E s \in tapes :
       LET g == Calls[s, hashSeed[p]]
           b2 == Append(buf[p], CsvLine(g.row))
       IN  /\ ~g.fault
           /\ Len(b2) >= BufCap
           /\ last' = [last EXCEPT ![p] = g]
           /\ generated' = [generated EXCEPT ![p] = Append(@, g)]
           /\ \E m \in 0..Len(b2) :
                /\ disk' = FlushTo(disk, pos[p], SubSeq(b2, 1, m))
                /\ pos' = [pos EXCEPT ![p] = @ + m]
                /\ lastWriter' = IF m > 0 THEN p ELSE lastWriter
  /\ buf' = [buf EXCEPT ![p] = <<>>]
  /\ file_open' = [file_open EXCEPT ![p] = FALSE]
  /\ pc' = [pc EXCEPT ![p] = "aborted"]
  /\ abortStage' = [abortStage EXCEPT ![p] = "write"]
  /\ UNCHANGED <<tapes, num_rows, hashSeed, rowsDone, stdout, openedAfterClose>>

\* range(num_rows) is exhausted: the with block closes the file
ExitLoop(p) ==
  /\ pc[p] = "loop"
  /\ rowsDone[p] >= num_rows[p]
  /\ LET c == FileClose(buf[p], pos[p], disk)
     IN  /\ buf' = [buf EXCEPT ![p] = c.buf]
         /\ pos' = [pos EXCEPT ![p] = c.pos]
         /\ disk' = c.disk
         /\ lastWriter' = IF c.flushed THEN p ELSE lastWriter
  /\ file_open' = [file_open EXCEPT ![p] = FALSE]
  /\ pc' = [pc EXCEPT ![p] = "closed"]
  /\ UNCHANGED <<tapes, num_rows, hashSeed, rowsDone, stdout, generated, last,
                 abortStage, openedAfterClose>>

\* print(f"Successfully generated {num_rows} rows of data in ...")
PrintSuccess(p) ==
  /\ pc[p] = "closed"
  /\ stdout' = [stdout EXCEPT ![p] = Append(@, success_message(num_rows[p]))]
  /\ pc' = [pc EXCEPT ![p] = "done"]
  /\ UNCHANGED <<tapes, num_rows, hashSeed, rowsDone, file_open, buf, pos, disk,
                 generated, last, abortStage, lastWriter, openedAfterClose>>

Next ==
  \E p \in Procs :
    \/ Open(p)
    \/ WriteHeader(p)
    \/ WriteRow(p)
    \/ GenerateFault(p)
    \/ WriteFault(p)
    \/ ExitLoop(p)
    \/ PrintSuccess(p)

Spec == Init /\ [][Next]_vars

SpecConc == InitConc /\ [][Next]_vars

(***************************************************************************)
(* Properties.                                                             *)
(***************************************************************************)
\* the rows instance p got back from generate_random_data, in order
RowsOf(p) == [k \in 1..Len(generated[p]) |-> generated[p][k].row]

\* the complete output of instance p: the header line and its rows
Output(p) == <<CsvLine(header)>> \o [k \in 1..Len(generated[p]) |-> CsvLine(RowsOf(p)[k])]

\* the header line and the first n rows of instance p
OutputUpTo(p, n) == SubSeq(Output(p), 1, n + 1)

IsPrefix(a, b) == Len(a) <= Len(b) /\ SubSeq(b, 1, Len(a)) = a

\* every call of generate_random_data made so far, returned or faulted
AllCalls ==
  UNION {Range(generated[p]) : p \in Procs}
    \cup {last[p] : p \in {q \in Procs : last[q].called}}

\* C1 (as stated): once create_csv_file has completed, the file holds exactly
\* num_rows + 1 lines, the header first and then the num_rows generated rows
\* of five fields each in generation order, for every row count passed.
C1_Original ==
  \A p \in Procs :
    pc[p] = "done" =>
      /\ Len(disk) = num_rows[p] + 1
      /\ disk = Output(p)
      /\ \A k \in 1..Len(disk) : Len(disk[k]) = 5

\* C1 (amended): once create_csv_file has completed, the file holds exactly
\* max(num_rows, 0) + 1 lines, the header first and then the max(num_rows, 0)
\* generated rows of five fields each in generation order; a negative row
\* count leaves the header alone.
C1_Amended ==
  \A p \in Procs :
    pc[p] = "done" =>
      /\ Len(disk) = Max(num_rows[p], 0) + 1
      /\ Len(generated[p]) = Max(num_rows[p], 0)
      /\ disk[1] = CsvLine(header)
      /\ disk = Output(p)
      /\ \A k \in 1..Len(disk) : Len(disk[k]) = 5

C1_Witness ==
  /\ pc[1] = "done"
  /\ num_rows[1] = 2
  /\ Len(disk) = 3
  /\ disk[2] # disk[3]

\* C2: the success message is emitted only after every row is written and
\* the file is closed, and the row count it reports is the number of data
\* rows of the file, for every row count passed.
C2_Claim ==
  \A p \in Procs :
    stdout[p] # <<>> =>
      /\ ~file_open[p]
      /\ buf[p] = <<>>
      /\ disk = Output(p)
      /\ stdout[p] = <<success_message(Len(disk) - 1)>>

\* C3: the burger description of every call is built from one adjective, one
\* noun, one bun and 2 to 4 mutually distinct toppings of the vocabularies.
C3_Burger ==
  \A c \in AllCalls :
    /\ c.adjective \in Range(burger_adjectives)
    /\ c.noun \in Range(burger_nouns)
    /\ c.bun \in Range(buns)
    /\ Len(c.selected_toppings) \in MinToppings..MaxToppings
    /\ Range(c.selected_toppings) \subseteq Range(toppings)
    /\ Distinct(c.selected_toppings)
    /\ c.row[1] = "The " \o c.adjective \o " " \o c.noun \o " - "
                    \o Join(", ", c.selected_toppings) \o " on a " \o c.bun

C3_Witness ==
  \E p \in Procs :
    /\ Len(generated[p]) >= 1
    /\ \E k \in 1..Len(generated[p]) :
         Len(generated[p][k].selected_toppings) = MaxToppings

\* C4: the can-beer field of every call holds 4 to 6 mutually distinct
\* entries, each of the can-only list or of the 15-element subsample of the
\* shared list drawn for the can pool in that call.
C4_CanField ==
  \A c \in AllCalls :
    /\ Len(c.selected_can_beers) \in MinCanBeers..MaxCanBeers
    /\ Distinct(c.selected_can_beers)
    /\ Len(c.can_sample) = SharedSampleMax
    /\ Distinct(c.can_sample)
    /\ Range(c.can_sample) \subseteq Range(shared_beers)
    /\ Range(c.can_pool) = Range(can_only_beers) \cup Range(c.can_sample)
    /\ Range(c.selected_can_beers) \subseteq Range(c.can_pool)
    /\ c.row[3] = Join(", ", c.selected_can_beers)

C4_Witness ==
  \E p \in Procs : \E k \in 1..Len(generated[p]) :
    LET c == generated[p][k]
    IN  /\ Len(c.selected_can_beers) = MaxCanBeers
        /\ Range(c.selected_can_beers) \cap Range(c.can_sample) # {}
        /\ Range(c.selected_can_beers) \cap Range(can_only_beers) # {}

\* C5: no tap-only beer appears in a can-beer field, no can-only beer in a
\* tap-beer field, and a beer that appears in a tap-beer field and in a
\* can-beer field (of the same row or of two rows) is of the shared list.
C5_Exclusive ==
  \A c \in AllCalls :
    /\ Range(c.selected_can_beers) \cap Range(tap_only_beers) = {}
    /\ Range(c.selected_tap_beers) \cap Range(can_only_beers) = {}
    /\ \A d \in AllCalls :
         Range(c.selected_tap_beers) \cap Range(d.selected_can_beers)
           \subseteq Range(shared_beers)

C5_Witness ==
  \E p \in Procs : \E k \in 1..Len(generated[p]) :
    LET c == generated[p][k]
    IN  /\ Range(c.selected_tap_beers) \cap Range(c.selected_can_beers) # {}
        /\ Range(c.selected_can_beers) \cap Range(can_only_beers) # {}

\* C6: no two data rows of the file written by a completed run carry the
\* same burger description.
C6_Claim ==
  \A p \in Procs :
    pc[p] = "done" =>
      \A a, b \in 2..Len(disk) : a # b => disk[a][1] # disk[b][1]

\* C7: two calls of generate_random_data that receive the same draws of the
\* random source return the same row.
C7_Claim ==
  \A c, d \in AllCalls : c.tape = d.tape => c.row = d.row

\* C8 (as stated): after a fault while row k is generated or written the run
\* is aborted with the handle released, no success message, and the file
\* holding exactly the header and the k-1 rows written before the fault.
C8_Original ==
  \A p \in Procs :
    pc[p] = "aborted" =>
      /\ ~file_open[p]
      /\ stdout[p] = <<>>
      /\ disk = OutputUpTo(p, rowsDone[p])

\* C8 (amended): after a fault while row k is generated or written the run
\* is aborted with the handle released and no success message; no row after
\* row k is generated; a fault raised while row k is generated leaves the
\* file holding exactly the header and the k-1 earlier rows, a fault raised
\* by the write of row k leaves a prefix of the header, the k-1 earlier rows
\* and row k.
C8_Amended ==
  \A p \in Procs :
    pc[p] = "aborted" =>
      /\ ~file_open[p]
      /\ stdout[p] = <<>>
      /\ abortStage[p] = "generate" =>
           /\ Len(generated[p]) = rowsDone[p]
           /\ disk = OutputUpTo(p, rowsDone[p])
      /\ abortStage[p] = "write" =>
           /\ Len(generated[p]) = rowsDone[p] + 1
           /\ IsPrefix(disk, Output(p))

C8_Witness ==
  /\ pc[1] = "aborted"
  /\ abortStage[1] = "generate"
  /\ rowsDone[1] = 1
  /\ Len(disk) = 2

\* C9 (as stated): once two instances on the same path have both finished,
\* the file is the complete output of the instance that wrote last, under
\* every interleaving of their steps.
C9_Original ==
  (\A p \in Procs : pc[p] = "done") =>
    /\ lastWriter \in Procs
    /\ disk = Output(lastWriter)

\* C9 (amended): when one instance opens (truncates) the file after the
\* other has closed it, then once it has finished the file is its complete
\* output; when the open and write steps of the two overlap, the file need
\* not be the complete output of either.
C9_Amended ==
  \A p \in Procs :
    (pc[p] = "done" /\ openedAfterClose[p]) => disk = Output(p)

C9_Witness ==
  /\ \A p \in Procs : pc[p] = "done" /\ Len(generated[p]) = 1
  /\ openedAfterClose[2]
  /\ generated[1] # generated[2]

\* C10: in every call the tap pool and the can pool are at least as large
\* as the largest count requested from them, so random.sample never faults
\* and the call has a row.
C10_NoSampleFault ==
  \A c \in AllCalls :
    /\ Len(c.tap_pool) >= MaxTapBeers
    /\ Len(c.can_pool) >= MaxCanBeers
    /\ c.num_tap_beers <= Len(c.tap_pool)
    /\ c.num_can_beers <= Len(c.can_pool)
    /\ ~c.fault
    /\ Len(c.row) = 5

C10_Witness ==
  \E p \in Procs :
    /\ last[p].called
    /\ last[p].num_can_beers = MaxCanBeers
    /\ last[p].num_tap_beers = MaxTapBeers

====
